---- MODULE Spec2Model ----
(***************************************************************************)
(* The example scripts of resources/prompts/examples as one state machine. *)
(* A run executes one script, top to bottom, on one input table.  A script *)
(* is a straight-line program: Program(script) lists its steps in source   *)
(* order and there is one action per kind of step.  A step that raises     *)
(* ends the run (status = "failed"); nothing is enabled afterwards.        *)
(*                                                                         *)
(* The input table is represented by what the scripts read from it: its    *)
(* number of rows, the columns it has, whether its measure columns have a  *)
(* numeric dtype, the column totals the scripts branch or divide on, the   *)
(* number of customer segments and of numeric / text columns.              *)
(***************************************************************************)
EXTENDS Integers, Sequences, FiniteSets, TLC

VARIABLES script, table, df, pc, status, err, env, wb, figs, files, elements, out,
          swallowed

vars == <<script, table, df, pc, status, err, env, wb, figs, files, elements, out,
          swallowed>>

(***************************************************************************)
(* Bounds of the model.                                                    *)
(***************************************************************************)
MaxRows == 2
MaxTotal == 1
MaxOrders == 2
MaxNumCols == 2
MaxCatCols == 1

NoDf == [nrows |-> -1]

Scripts == {"sales", "harness", "styled", "export", "charts", "pdf"}

(***************************************************************************)
(* Columns.                                                                *)
(***************************************************************************)
SalesSumCols == <<"7D Units", "7D Sales", "7D Net Sales",
                  "30D Units", "30D Sales", "30D Net Sales",
                  "90D Units", "90D Sales", "90D Net Sales">>
SalesMeanCols == <<"7D Avg Price", "30D Avg Price", "90D Avg Price">>
SalesGuardedCols == {"Product Name", "Category", "Color"}

Range(s) == {s[i] : i \in 1..Len(s)}

SalesExpected == {"SKU"} \cup SalesGuardedCols \cup Range(SalesSumCols) \cup Range(SalesMeanCols)

\* the totals the sales report branches or divides on
SalesTotals == {"7D Units", "30D Units", "90D Units", "7D Sales", "90D Sales", "90D Net Sales"}


(***************************************************************************)
(* Values of script variables.  Numbers are kept as fractions so that a    *)
(* ratio is exact; nan and inf are what numpy's division yields for 0/0    *)
(* and x/0; a raise is what evaluating the expression throws.              *)
(***************************************************************************)
Q(n, d) == [t |-> "num", n |-> n, d |-> d]
Num(n) == Q(n, 1)
Str(s) == [t |-> "str", s |-> s]
NaN == [t |-> "nan"]
Inf == [t |-> "inf"]
Raise(e) == [t |-> "raise", e |-> e]
IsRaise(v) == v.t = "raise"
IsNum(v) == v.t = "num"
Positive(v) == IsNum(v) /\ v.n > 0
IsZero(v) == IsNum(v) /\ v.n = 0

\* a / b on two finite numbers with b # 0
QDiv(a, b) == Q(a.n * b.d, a.d * b.n)
QMul(a, b) == Q(a.n * b.n, a.d * b.d)
QSub(a, b) == Q(a.n * b.d - b.n * a.d, a.d * b.d)

\* a / b as Python evaluates it on the totals of the loaded table: the sums of
\* numeric columns are numpy scalars (0/0 is nan, x/0 is inf, no exception);
\* the sums of the object columns of a table without rows are Python ints
\* (ZeroDivisionError).
Divide(a, b) ==
    IF IsZero(b)
    THEN IF df.numeric THEN (IF IsZero(a) THEN NaN ELSE Inf)
         ELSE Raise("ZeroDivisionError")
    ELSE QDiv(a, b)

Min(a, b) == IF a < b THEN a ELSE b

(***************************************************************************)
(* The steps of a script.                                                  *)
(***************************************************************************)
Load == [op |-> "load"]
GetItem(cols) == [op |-> "getitem", cols |-> cols]
Assign(var) == [op |-> "assign", var |-> var]
NewWorkbook == [op |-> "workbook"]
Title(title) == [op |-> "title", title |-> title]
CreateSheet(title) == [op |-> "create_sheet", title |-> title]
AddTitle(cols) == [op |-> "add_title", cols |-> cols, fit |-> FALSE]
AddTitleFit(cols) == [op |-> "add_title", cols |-> cols, fit |-> TRUE]
Table(hdr, rows, when) == [op |-> "table", hdr |-> hdr, rows |-> rows, when |-> when]
Chart(kind, when) == [op |-> "chart", kind |-> kind, when |-> when]
Commentary(base, off) == [op |-> "commentary", base |-> base, off |-> off]
AutoFit(how) == [op |-> "autofit", how |-> how]
Save(filename) == [op |-> "save", filename |-> filename]
Subplots == [op |-> "subplots"]
Draw(chart) == [op |-> "draw", chart |-> chart]
SaveFig(filename) == [op |-> "savefig", filename |-> filename]
Close == [op |-> "close"]
Doc(filename) == [op |-> "doc", filename |-> filename]
Image(filename) == [op |-> "image", filename |-> filename]
Build == [op |-> "build"]
Say(msg) == [op |-> "print", msg |-> msg]

(***************************************************************************)
(* sales_analysis_excel_report.py                                          *)
(***************************************************************************)
SalesPeriodSheetBarOnly(title, best_size, extra) ==
    << CreateSheet(title), AddTitle(7), Table(3, "len(df)", "always"),
       Chart("bar", "always"), Chart("bar", "always"),
       Assign(best_size) >>
    \o extra \o
    << Commentary("table_end", 28), AutoFit("get_column_letter") >>

SalesPeriodSheet(title, best_size, extra) ==
    << CreateSheet(title), AddTitle(7), Table(3, "len(df)", "always"),
       Chart("bar", "always"), Chart("line", "always"),
       Assign(best_size) >>
    \o extra \o
    << Commentary("table_end", 28), AutoFit("get_column_letter") >>

SalesProgram ==
    << GetItem(<<"SKU">>),
       GetItem(SalesSumCols \o SalesMeanCols),
       Assign("top_seller_7d"), Assign("top_seller_30d"), Assign("top_seller_90d"),
       Assign("product_name"), Assign("category"), Assign("color"),
       NewWorkbook,
       Title("Summary"), AddTitle(8), Table(7, "metrics_data", "always"),
       Chart("bar", "always"), Chart("line", "always"),
       Assign("growth_7_to_30"), Commentary("row", 44), AutoFit("get_column_letter") >>
    \o SalesPeriodSheet("7-Day Performance", "best_size_7d", <<>>)
    \o SalesPeriodSheet("30-Day Performance", "best_size_30d", <<>>)
    \o SalesPeriodSheet("90-Day Performance", "best_size_90d", << Assign("margin_pct") >>)
    \o << CreateSheet("Period Comparison"), AddTitle(10), Table(3, "len(df)", "always"),
          Chart("bar", "always"), Chart("line", "always"),
          Assign("weekly_rate"), Assign("velocity_change"),
          Commentary("table_end", 28), AutoFit("get_column_letter"),
          Save("sales_analysis_report.xlsx"),
          Say("EXCEL REPORT GENERATED SUCCESSFULLY!") >>

(***************************************************************************)
(* test_sales_report.py                                                    *)
(***************************************************************************)
HarnessExecFirst == SalesProgram \o << Load >>

HarnessProgram == << Load >> \o SalesProgram


(***************************************************************************)
(* styled_excel_analysis.py                                                *)
(***************************************************************************)
RowLimit == 100

StyledProgram ==
    << Assign("numeric_cols"), Assign("summary_stats"), Assign("insights"),
       NewWorkbook,
       Title("Summary"), AddTitle(8), Table(11, "len(insights)", "always"),
       Chart("bar", "insights"), Chart("line", "insights"),
       Commentary("row", 52), AutoFit("column_letter"),
       CreateSheet("Detailed Data"), AddTitleFit(10),
       Table(3, "display_rows", "always"),
       Chart("bar", "numeric_cols"), Chart("line", "numeric_cols"),
       Commentary("display_rows", 6), AutoFit("column_letter"),
       CreateSheet("Statistical Analysis"), AddTitle(8),
       Table(3, "numeric_cols[:10]", "always"),
       Chart("bar", "numeric_cols"), Chart("line", "numeric_cols"),
       Assign("top_value"), Commentary("row", 50), AutoFit("column_letter"),
       CreateSheet("Performance Breakdown"), AddTitle(8),
       [op |-> "assign", var |-> "top_n", when |-> "numeric_cols"],
       Table(4, "len(top_n)", "numeric_cols"),
       Assign("chart_rows"),
       Chart("bar", "always"), Chart("line", "always"),
       Assign("top_performer"), Commentary("row", 51), AutoFit("column_letter"),
       Save("styled_analysis_report.xlsx"),
       Say("EXCEL REPORT GENERATED SUCCESSFULLY!") >>

(***************************************************************************)
(* excel_export_example.py                                                 *)
(***************************************************************************)
DailyAggCols == <<"Orders", "Gross sales", "Discounts", "Net sales", "Gross profit",
                  "Quantity ordered">>
SegmentCol == "New or returning customer"

ExportProgram ==
    << GetItem(<<"Day">>), GetItem(DailyAggCols), Assign("daily_AOV"),
       GetItem(<<SegmentCol>>), Assign("customer_AOV"),
       NewWorkbook,
       Title("Executive Summary"), AddTitle(5),
       Assign("kpi_aov"), Assign("kpi_margin"),
       Table(4, "kpis", "always"),
       CreateSheet("Daily Data"), Table(1, "len(daily)", "always"),
       CreateSheet("Customer Analysis"), Table(3, "len(customer_summary)", "always"),
       CreateSheet("Charts"),
       Assign("data1"), Chart("bar", "always"),
       Assign("data2"), Chart("line", "always"),
       Save("november_2025_report.xlsx"),
       Say("Excel report saved") >>

(***************************************************************************)
(* charts_example.py                                                       *)
(***************************************************************************)
PdfAggCols == <<"Orders", "Gross sales", "Net sales", "Gross profit", "Discounts",
                "Quantity ordered">>
ChartsAggCols == <<"Orders", "Gross sales", "Net sales", "Gross profit", "Discounts">>

FigureNotSaved(chart, filename) ==
    << Subplots, Draw(chart), Close >>

FigureNotClosed(chart, filename) ==
    << Subplots, Draw(chart), SaveFig(filename) >>

Figure(chart, filename) ==
    << Subplots, Draw(chart), SaveFig(filename), Close >>

ChartsProgramReordered ==
    << GetItem(<<"Day">>), GetItem(ChartsAggCols), Assign("daily_AOV") >>
    \o Figure("bar", "chart_bar_orders.png")
    \o Figure("line", "chart_line_sales.png")
    \o Figure("dual_axis", "chart_dual_axis.png")
    \o << GetItem(<<SegmentCol>>) >>
    \o Figure("pie", "chart_pie_customers.png")
    \o << Assign("pre_bf_vals"), Assign("bf_vals") >>
    \o Figure("comparison", "chart_comparison.png")
    \o << Assign("pivot") >>
    \o Figure("heatmap", "chart_heatmap.png")
    \o << Say("All 6 charts created successfully!") >>

ChartsProgram ==
    << GetItem(<<"Day">>), GetItem(ChartsAggCols), Assign("daily_AOV") >>
    \o Figure("line", "chart_line_sales.png")
    \o Figure("bar", "chart_bar_orders.png")
    \o Figure("dual_axis", "chart_dual_axis.png")
    \o << GetItem(<<SegmentCol>>) >>
    \o Figure("pie", "chart_pie_customers.png")
    \o << Assign("pre_bf_vals"), Assign("bf_vals") >>
    \o Figure("comparison", "chart_comparison.png")
    \o << Assign("pivot") >>
    \o Figure("heatmap", "chart_heatmap.png")
    \o << Say("All 6 charts created successfully!") >>

(***************************************************************************)
(* pdf_report_example.py                                                   *)
(***************************************************************************)
PdfProgramForeignImage ==
    << GetItem(<<"Day">>), GetItem(PdfAggCols), Assign("daily_AOV"),
       Assign("avg_aov"), Assign("gross_margin") >>
    \o Figure("daily_sales", "chart_daily_sales.png")
    \o Figure("daily_orders", "chart_daily_orders.png")
    \o << Assign("aov_mean") >>
    \o Figure("aov_trend", "chart_aov_trend.png")
    \o << Doc("november_kpi_report.pdf"),
          Image("chart_line_sales.png"), Image("chart_daily_orders.png"),
          Image("chart_aov_trend.png"),
          Build,
          Say("PDF Report saved: november_kpi_report.pdf") >>

PdfProgramBuildEarly ==
    << GetItem(<<"Day">>), GetItem(PdfAggCols), Assign("daily_AOV"),
       Assign("avg_aov"), Assign("gross_margin") >>
    \o Figure("daily_sales", "chart_daily_sales.png")
    \o Figure("daily_orders", "chart_daily_orders.png")
    \o << Doc("november_kpi_report.pdf"),
          Image("chart_daily_sales.png"), Image("chart_daily_orders.png"),
          Image("chart_aov_trend.png"),
          Build >>
    \o << Assign("aov_mean") >>
    \o Figure("aov_trend", "chart_aov_trend.png")
    \o << Say("PDF Report saved: november_kpi_report.pdf") >>

PdfProgram ==
    << GetItem(<<"Day">>), GetItem(PdfAggCols), Assign("daily_AOV"),
       Assign("avg_aov"), Assign("gross_margin") >>
    \o Figure("daily_sales", "chart_daily_sales.png")
    \o Figure("daily_orders", "chart_daily_orders.png")
    \o << Assign("aov_mean") >>
    \o Figure("aov_trend", "chart_aov_trend.png")
    \o << Doc("november_kpi_report.pdf"),
          Image("chart_daily_sales.png"), Image("chart_daily_orders.png"),
          Image("chart_aov_trend.png"),
          Build,
          Say("PDF Report saved: november_kpi_report.pdf") >>

Program(s) ==
    CASE s = "sales" -> SalesProgram
      [] s = "harness" -> HarnessProgram
      [] s = "styled" -> StyledProgram
      [] s = "export" -> ExportProgram
      [] s = "charts" -> ChartsProgram
      [] s = "pdf" -> PdfProgram


(***************************************************************************)
(* The input tables.                                                       *)
(***************************************************************************)
DailyTotals == {"Orders", "Gross sales", "Net sales", "Gross profit"}
ExportExpected == {"Day", SegmentCol} \cup Range(DailyAggCols)
ChartsExpected == {"Day", SegmentCol} \cup Range(ChartsAggCols)
PdfExpected == {"Day"} \cup Range(PdfAggCols)

Expected(s) ==
    CASE s \in {"sales", "harness"} -> SalesExpected
      [] s = "styled" -> {}
      [] s = "export" -> ExportExpected
      [] s = "charts" -> ChartsExpected
      [] s = "pdf" -> PdfExpected

TotalCols(s) ==
    CASE s \in {"sales", "harness"} -> SalesTotals
      [] s = "styled" -> {}
      [] OTHER -> DailyTotals

\* the sets of columns a table may lack: none, any single one, or the three
\* columns the sales report treats as optional
MissingSets(s) ==
    {{}} \cup {{c} : c \in Expected(s)}
         \cup (IF s \in {"sales", "harness"} THEN {SalesGuardedCols} ELSE {})

RECURSIVE SumOver(_, _, _)
\* the sum of a column over the rows whose indices are in S
SumOver(rows, col, S) ==
    IF S = {} THEN 0
    ELSE LET i == CHOOSE x \in S : TRUE
         IN  rows[i][col] + SumOver(rows, col, S \ {i})

\* the rows of a table of the daily scripts: each has a day, a customer
\* segment, its gross sales and its order count.  Days and segments are
\* numbered in the order in which they first appear; the rows are in day order.
RowSeqs(n, segments) ==
    {r \in [1..n -> [day : 1..n, seg : segments, gross : 0..MaxTotal, orders : 0..MaxOrders]] :
        /\ n > 0 => (r[1].day = 1 /\ r[1].seg = 1)
        /\ \A i \in 2..n :
              /\ r[i].day \in {r[i - 1].day, r[i - 1].day + 1}
              /\ \E j \in 1..(i - 1) : r[i].seg <= r[j].seg + 1}

NoRows == <<>>

\* the table that holds the given rows
DailyTable(cs, r, net, profit, num, bf) ==
    [nrows |-> Len(r), cols |-> cs, numeric |-> num,
     tot |-> [c \in DailyTotals |->
                CASE c = "Orders" -> SumOver(r, "orders", DOMAIN r)
                  [] c = "Gross sales" -> SumOver(r, "gross", DOMAIN r)
                  [] c = "Net sales" -> net
                  [] c = "Gross profit" -> profit],
     days |-> Cardinality({r[i].day : i \in DOMAIN r}),
     segs |-> Cardinality({r[i].seg : i \in DOMAIN r}),
     numCols |-> 0, catCols |-> 0, missing |-> FALSE, rows |-> r, bf |-> bf]

\* a table without rows sums to 0 in every column; its measure columns are
\* numeric (a filtered frame) or object (a CSV holding only the header line)
Tables(s) ==
    IF s = "styled"
    THEN {t \in [nrows : 0..MaxRows \cup {RowLimit, RowLimit + 1}, cols : {{}},
                 numeric : {TRUE}, tot : {<<>>},
                 days : {0}, segs : {0}, numCols : 0..MaxNumCols,
                 catCols : 0..MaxCatCols, missing : {FALSE}, rows : {NoRows}, bf : {1}] :
              t.numCols + t.catCols >= 1}
    ELSE IF s \in {"sales", "harness"}
    THEN
      \* a table lacking columns, with every total 1 (0 without rows)
      {[nrows |-> n, cols |-> Expected(s) \ m, numeric |-> (n > 0 \/ num),
        tot |-> [c \in TotalCols(s) |-> IF n = 0 THEN 0 ELSE 1],
        days |-> n, segs |-> Min(n, 2), numCols |-> 0, catCols |-> 0,
        missing |-> FALSE, rows |-> NoRows, bf |-> 1] :
          n \in 0..MaxRows, m \in MissingSets(s), num \in BOOLEAN}
      \cup
      \* a table with every column, whose totals vary and which may hold a
      \* missing value (a blank cell of the CSV)
      {[nrows |-> n, cols |-> Expected(s), numeric |-> TRUE, tot |-> t,
        days |-> n, segs |-> Min(n, 2),
        numCols |-> 0, catCols |-> 0, missing |-> mis, rows |-> NoRows, bf |-> 1] :
          n \in 1..MaxRows, t \in [TotalCols(s) -> 0..MaxTotal], mis \in BOOLEAN}
    ELSE
      \* a table lacking columns, each row a day and an order of its own
      {DailyTable(Expected(s) \ m,
                  [i \in 1..n |-> [day |-> i, seg |-> Min(i, 2), gross |-> 1, orders |-> 1]],
                  Min(n, 1), Min(n, 1), n > 0 \/ num, 1) :
          n \in 0..MaxRows, m \in MissingSets(s), num \in BOOLEAN}
      \cup
      \* a table with every column, whose rows vary.  Only the export and the
      \* charts script read the segment, only the export and the PDF script
      \* divide by net sales, only the charts script splits the days at the
      \* first day of the Black Friday period (bf).
      UNION {{DailyTable(Expected(s), r, t[1], t[2], TRUE, bf) :
                 t \in (IF s = "charts" THEN {<<1, 1>>}
                        ELSE (0..MaxTotal) \X (0..MaxTotal)),
                 bf \in (IF s = "charts" THEN 1..(r[Len(r)].day + 1) ELSE {1})} :
             r \in UNION {RowSeqs(n, IF s = "pdf" THEN {1} ELSE 1..n) : n \in 1..MaxRows}}

(***************************************************************************)
(* The expressions the scripts assign.                                     *)
(***************************************************************************)
Total(c) == Num(df.tot[c])
NCols == df.numCols + df.catCols
display_rows == Min(df.nrows, RowLimit)

FirstOrDefaultEmpty(col, default) ==
    IF col \in df.cols /\ df.nrows > 0 THEN Str("iloc[0]") ELSE Str(default)

\* df[col].iloc[0] if col in df.columns else default
FirstOrDefault(col, default) ==
    IF col \in df.cols
    THEN IF df.nrows = 0 THEN Raise("IndexError") ELSE Str("iloc[0]")
    ELSE Str(default)

\* df.loc[df[col].idxmax(), 'Size'] if total > 0 else 'N/A'
TopSeller(col) ==
    IF Positive(Total(col))
    THEN IF df.nrows = 0 THEN Raise("ValueError") ELSE Str("Size")
    ELSE Str("N/A")

\* df_7d.iloc[0]['Size'] if len(df_7d) > 0 else 'N/A'
BestSize == IF df.nrows > 0 THEN Str("Size") ELSE Str("N/A")

growth_unguarded ==
    LET r == Divide(Total("30D Units"), Total("7D Units"))
    IN  IF IsNum(r) THEN QMul(QSub(QMul(r, Q(30, 7)), Num(1)), Num(100)) ELSE r

growth_7_to_30 ==
    IF Positive(Total("7D Units"))
    THEN QMul(QSub(QMul(QDiv(Total("30D Units"), Total("7D Units")), Q(30, 7)), Num(1)),
              Num(100))
    ELSE Num(0)

margin_pct ==
    IF Positive(Total("90D Sales"))
    THEN QMul(QDiv(Total("90D Net Sales"), Total("90D Sales")), Num(100))
    ELSE Num(0)

weekly_rate ==
    IF Positive(Total("90D Sales")) THEN QDiv(Total("90D Sales"), Num(13)) ELSE Num(0)

velocity_change ==
    IF Positive(env["weekly_rate"])
    THEN QMul(QSub(QDiv(Total("7D Sales"), env["weekly_rate"]), Num(1)), Num(100))
    ELSE Num(0)

\* df.groupby(key).agg({... 'sum'}): one record per day or segment, in key
\* order, holding the sums over the rows of the group
GroupBy(key, n) ==
    [k \in 1..n |->
        LET group == {i \in DOMAIN df.rows : df.rows[i][key] = k}
        IN  [gross |-> SumOver(df.rows, "gross", group),
             orders |-> SumOver(df.rows, "orders", group)]]

daily == GroupBy("day", df.days)

customer_summary == GroupBy("seg", df.segs)

\* the division of one column by another, element by element: numpy
\* arithmetic, 0/0 is nan and x/0 is inf
ColumnRatio(grouped) ==
    [t |-> "series",
     v |-> [k \in DOMAIN grouped |->
              IF grouped[k].orders = 0
              THEN (IF grouped[k].gross = 0 THEN NaN ELSE Inf)
              ELSE Q(grouped[k].gross, grouped[k].orders)]]

QAdd(a, b) == Q(a.n * b.d + b.n * a.d, a.d * b.d)

RECURSIVE SumValues(_)
SumValues(vs) == IF vs = <<>> THEN Num(0) ELSE QAdd(Head(vs), SumValues(Tail(vs)))

\* Series.mean(): nan entries are skipped; nan if nothing is left; inf if an
\* entry is inf
Mean(vs) ==
    LET kept == SelectSeq(vs, LAMBDA v : v # NaN)
    IN  IF kept = <<>> THEN NaN
        ELSE IF \E i \in 1..Len(kept) : kept[i] = Inf THEN Inf
        ELSE QDiv(SumValues(kept), Num(Len(kept)))

aov_mean_of_sums(from, to) ==
    LET period == {i \in DOMAIN df.rows : df.rows[i].day \in from..to}
        gross == SumOver(df.rows, "gross", period)
        orders == SumOver(df.rows, "orders", period)
    IN  IF orders = 0 THEN (IF gross = 0 THEN NaN ELSE Inf) ELSE Q(gross, orders)

\* daily['AOV'].mean() over the days of a period
aov_mean(from, to) ==
    Mean(SubSeq(env["daily_AOV"].v, from, to))

avg_aov == Divide(Total("Gross sales"), Total("Orders"))

gross_margin ==
    LET r == Divide(Total("Gross profit"), Total("Net sales"))
    IN  IF IsNum(r) THEN QMul(r, Num(100)) ELSE r

\* Reference(ws_charts, min_col, min_row=1, max_row=len(daily)): the bounds of
\* a Reference are at least 1
ChartReference == IF df.days = 0 THEN Raise("ValueError") ELSE Str("Reference")

\* df[numeric_cols].describe() refuses a frame without columns
summary_stats == IF df.numCols = 0 THEN Raise("ValueError") ELSE Str("describe")

\* top_n.head(8) at the Charts of the Performance Breakdown: top_n is bound
\* only under `if numeric_cols:`
chart_rows ==
    IF "top_n" \in DOMAIN env THEN Num(Min(8, Min(df.nrows, 10))) ELSE Raise("NameError")

Eval(var) ==
    CASE var = "top_seller_7d" -> TopSeller("7D Units")
      [] var = "top_seller_30d" -> TopSeller("30D Units")
      [] var = "top_seller_90d" -> TopSeller("90D Units")
      [] var = "product_name" -> FirstOrDefault("Product Name", "Product")
      [] var = "category" -> FirstOrDefault("Category", "Category")
      [] var = "color" -> FirstOrDefault("Color", "Color")
      [] var \in {"best_size_7d", "best_size_30d", "best_size_90d"} -> BestSize
      [] var = "growth_7_to_30" -> growth_7_to_30
      [] var = "margin_pct" -> margin_pct
      [] var = "weekly_rate" -> weekly_rate
      [] var = "velocity_change" -> velocity_change
      [] var \in {"avg_aov", "kpi_aov"} -> avg_aov
      [] var \in {"gross_margin", "kpi_margin"} -> gross_margin
      [] var \in {"data1", "data2"} -> ChartReference
      [] var = "numeric_cols" -> Num(df.numCols)
      [] var = "summary_stats" -> summary_stats
      [] var = "insights" -> Num(Min(df.numCols, 5))
      [] var = "top_n" -> Num(Min(df.nrows, 10))
      [] var = "chart_rows" -> chart_rows
      [] var = "top_value" -> IF df.numCols > 0 THEN Str("sum") ELSE Num(0)
      [] var = "top_performer" ->
            IF env["top_n"].n > 0 /\ NCols > 0 THEN Str("iloc[0]") ELSE Str("N/A")
      [] var = "daily_AOV" -> ColumnRatio(daily)
      [] var = "customer_AOV" -> ColumnRatio(customer_summary)
      [] var = "aov_mean" -> aov_mean(1, df.days)
      [] var = "pre_bf_vals" -> aov_mean(1, df.bf - 1)
      [] var = "bf_vals" -> aov_mean(df.bf, df.days)
      [] var = "pivot" -> Str("pivot_table")

\* the conditions of the scripts' if-statements around steps
Holds(when) ==
    CASE when = "always" -> TRUE
      [] when = "insights" -> env["insights"].n > 0
      [] when = "numeric_cols" -> df.numCols >= 1


\* the colours of the sales report
MAROON == "800000"
BEIGE == "F5F5DC"
LIGHT_MAROON == "A52A2A"
DARK_MAROON == "4A0000"
NoFill == "00000000"
DefaultFont == "FF000000"

\* fill_background(ws, rows=60, ...) fills the rows range(1, 60)
BackgroundRows == 60

\* style_cell: the fill and the font colour it gives a header or a data cell
style_cell(is_header) ==
    IF is_header
    THEN {[part |-> "header", fill |-> DARK_MAROON, font |-> BEIGE]}
    ELSE {[part |-> "data", fill |-> f, font |-> BEIGE] : f \in {MAROON, LIGHT_MAROON}}

\* the cells of a table of the sales report, by fill and font.  write_data_table
\* styles the header cells and the cells that hold a value; a cell whose value
\* is missing gets '' and no call of style_cell: it keeps the fill that
\* fill_background gave its row, if any, and the default font.
TableCells(hdr, rows) ==
    CASE rows = "metrics_data" -> style_cell(TRUE) \cup style_cell(FALSE)
      [] rows = "len(df)" ->
            style_cell(TRUE)
            \cup (IF df.nrows > 0 THEN style_cell(FALSE) ELSE {})
            \cup (IF df.missing
                  THEN {[part |-> "missing", fill |-> MAROON, font |-> DefaultFont]}
                       \cup (IF hdr + df.nrows >= BackgroundRows
                             THEN {[part |-> "missing", fill |-> NoFill, font |-> DefaultFont]}
                             ELSE {})
                  ELSE {})
      \* the cell styles of the other scripts' tables are not tracked
      [] OTHER -> {}

TableRows(rows) ==
    CASE rows = "len(df)" -> df.nrows
      [] rows = "metrics_data" -> 3
      [] rows = "kpis" -> 7
      [] rows = "len(insights)" -> env["insights"].n
      [] rows = "display_rows" -> display_rows
      [] rows = "numeric_cols[:10]" -> Min(df.numCols, 10)
      [] rows = "len(top_n)" -> env["top_n"].n
      [] rows = "len(daily)" -> df.days
      [] rows = "len(customer_summary)" -> df.segs

\* what drawing a figure does on the loaded table: the exceptions it can end in
\* ("ok" for none)
DrawOutcomes(chart) ==
    CASE chart = "line" -> IF df.days = 0 THEN {"IndexError"} ELSE {"ok"}
      [] chart = "bar" -> IF df.days = 0 THEN {"ValueError"} ELSE {"ok"}
      [] chart = "pie" ->
            IF df.segs # 2 THEN {"ValueError"}
            ELSE IF df.tot["Orders"] = 0 \/ df.tot["Gross sales"] = 0
                 THEN {"ok", "ValueError"}
                 ELSE {"ok"}
      [] OTHER -> {"ok"}

(***************************************************************************)
(* The run.                                                                *)
(***************************************************************************)
Init ==
    /\ script \in Scripts
    /\ table \in {t \in Tables(script) : t.days <= t.nrows /\ t.segs <= t.nrows}
    /\ df = IF script = "harness" THEN NoDf ELSE table
    /\ pc = 1
    /\ status = "running"
    /\ err = "none"
    /\ env = <<>>
    /\ wb = <<>>
    /\ figs = 0
    /\ files = <<>>
    /\ elements = <<>>
    /\ out = <<>>
    /\ swallowed = FALSE

Cur == Program(script)[pc]

At(op) == status = "running" /\ Cur.op = op

\* the condition of the if-statement the step is the body of
Cond == IF "when" \in DOMAIN Cur THEN Holds(Cur.when) ELSE TRUE

\* the step is over and the next statement is reached
Advance ==
    /\ pc' = pc + 1
    /\ status' = IF pc = Len(Program(script)) THEN "done" ELSE "running"
    /\ err' = err

FailAndGoOn(e) ==
    /\ pc' = pc + 1
    /\ status' = IF pc = Len(Program(script)) THEN "done" ELSE "running"
    /\ err' = e

\* the step raises: nothing in the scripts handles it, the interpreter exits
Fail(e) ==
    /\ pc' = pc
    /\ status' = "failed"
    /\ err' = e

NewSheet(title) ==
    [title |-> title, charts |-> <<>>, merged |-> 0, hdr |-> 0, last |-> 0, comments |-> <<>>,
     cells |-> {}, reports |-> <<>>]

ws == wb[Len(wb)]

SetWs(sheet) == [wb EXCEPT ![Len(wb)] = sheet]

\* df = pd.read_csv(csv_file)
LoadCsv ==
    /\ At("load")
    /\ df' = table
    /\ Advance
    /\ UNCHANGED <<script, table, env, wb, figs, files, elements, out, swallowed>>

MissingColsIgnored(cols) == {}

\* df[col], df.groupby(...).agg({col: ...}): KeyError on the first absent column
MissingCols(cols) == {i \in 1..Len(cols) : cols[i] \notin df.cols}

GetItemStep ==
    /\ At("getitem")
    /\ IF df = NoDf THEN Fail("NameError")
       ELSE IF MissingCols(Cur.cols) = {} THEN Advance ELSE Fail("KeyError")
    /\ UNCHANGED <<script, table, df, env, wb, figs, files, elements, out, swallowed>>

AssignStep ==
    /\ At("assign")
    /\ IF Cond
       THEN LET v == Eval(Cur.var)
            IN  IF IsRaise(v)
                THEN Fail(v.e) /\ env' = env
                ELSE Advance /\ env' = (Cur.var :> v) @@ env
       ELSE Advance /\ env' = env
    /\ UNCHANGED <<script, table, df, wb, figs, files, elements, out, swallowed>>

\* wb = Workbook()
WorkbookStep ==
    /\ At("workbook")
    /\ wb' = << NewSheet("Sheet") >>
    /\ Advance
    /\ UNCHANGED <<script, table, df, env, figs, files, elements, out, swallowed>>

\* ws = wb.active; ws.title = ...
TitleStep ==
    /\ At("title")
    /\ wb' = [wb EXCEPT ![1].title = Cur.title]
    /\ Advance
    /\ UNCHANGED <<script, table, df, env, figs, files, elements, out, swallowed>>

\* ws = wb.create_sheet(...)
CreateSheetStep ==
    /\ At("create_sheet")
    /\ wb' = Append(wb, NewSheet(Cur.title))
    /\ Advance
    /\ UNCHANGED <<script, table, df, env, figs, files, elements, out, swallowed>>

\* add_title / merge_cells on row 1: columns 1..cols become one merged cell
AddTitleStep ==
    /\ At("add_title")
    /\ wb' = SetWs([ws EXCEPT !.merged = IF Cur.fit THEN Min(NCols, Cur.cols) ELSE Cur.cols])
    /\ Advance
    /\ UNCHANGED <<script, table, df, env, figs, files, elements, out, swallowed>>

\* the loop goes on: the same statement is still the current one
Stay ==
    /\ pc' = pc
    /\ status' = status
    /\ err' = err

SameRow == IF ws.hdr = 0 THEN Cur.hdr ELSE ws.last

\* the row the table loop writes next: the header row, then the row below the
\* last one written (a sheet holds one table)
NextRow == IF ws.hdr = 0 THEN Cur.hdr ELSE ws.last + 1

\* a header row and one row per record below it, one row per pass of the loop;
\* the statement is over with the last record
TableStep ==
    /\ At("table")
    /\ IF Cond
       THEN LET end == Cur.hdr + TableRows(Cur.rows)
            IN  /\ wb' = SetWs([ws EXCEPT !.hdr = Cur.hdr, !.last = NextRow,
                                          !.cells = IF NextRow = end
                                                    THEN TableCells(Cur.hdr, Cur.rows)
                                                    ELSE @])
                /\ IF NextRow = end THEN Advance ELSE Stay
       ELSE wb' = wb /\ Advance
    /\ UNCHANGED <<script, table, df, env, figs, files, elements, out, swallowed>>

\* ws.add_chart(BarChart / LineChart)
ChartStep ==
    /\ At("chart")
    /\ wb' = IF Cond THEN SetWs([ws EXCEPT !.charts = Append(@, Cur.kind)]) ELSE wb
    /\ Advance
    /\ UNCHANGED <<script, table, df, env, figs, files, elements, out, swallowed>>

CommentaryRow ==
    CASE Cur.base = "row" -> Cur.off
      [] Cur.base = "table_end" -> ws.last + 1 + Cur.off
      [] Cur.base = "display_rows" -> display_rows + Cur.off

\* the numbers the commentary of the Detailed Data sheet quotes:
\* "Displaying {display_rows} of {total_rows} total records"
CommentaryReports ==
    IF Cur.base = "display_rows" THEN << display_rows, df.nrows >> ELSE <<>>

CommentaryStep ==
    /\ At("commentary")
    /\ wb' = SetWs([ws EXCEPT !.comments = Append(@, CommentaryRow),
                              !.reports = CommentaryReports])
    /\ Advance
    /\ UNCHANGED <<script, table, df, env, figs, files, elements, out, swallowed>>

\* auto_fit_columns.  The styled script takes column_cells[0].column_letter, which
\* a merged cell of row 1 does not have: AttributeError, outside the try.  The
\* measuring of a cell is inside try/except-pass in both scripts: if it raises,
\* the error is dropped and the loop goes on.
AutoFitRaises == Cur.how = "column_letter" /\ ws.merged >= 2

AutoFitStep ==
    /\ At("autofit")
    /\ IF AutoFitRaises
       THEN Fail("AttributeError") /\ swallowed' = swallowed
       ELSE \E measuring \in {"ok", "raises"} :
              /\ swallowed' = (swallowed \/ measuring = "raises")
              /\ Advance
    /\ UNCHANGED <<script, table, df, env, wb, figs, files, elements, out>>

FileNamedByRows(name, sheets, images) ==
    [name |-> IF df.nrows > 1 THEN "report.xlsx" ELSE name,
     sheets |-> sheets, images |-> images]

File(name, sheets, images) == [name |-> name, sheets |-> sheets, images |-> images]

\* wb.save(filename)
SaveStep ==
    /\ At("save")
    /\ files' = Append(files, File(Cur.filename, wb, <<>>))
    /\ Advance
    /\ UNCHANGED <<script, table, df, env, wb, figs, elements, out, swallowed>>

\* fig, ax = plt.subplots(...)
SubplotsStep ==
    /\ At("subplots")
    /\ figs' = figs + 1
    /\ Advance
    /\ UNCHANGED <<script, table, df, env, wb, files, elements, out, swallowed>>

DrawStep ==
    /\ At("draw")
    /\ \E o \in DrawOutcomes(Cur.chart) : IF o = "ok" THEN Advance ELSE Fail(o)
    /\ UNCHANGED <<script, table, df, env, wb, figs, files, elements, out, swallowed>>

\* plt.savefig(filename)
SaveFigStep ==
    /\ At("savefig")
    /\ files' = Append(files, File(Cur.filename, <<>>, <<>>))
    /\ Advance
    /\ UNCHANGED <<script, table, df, env, wb, figs, elements, out, swallowed>>

\* plt.close(): the current figure
CloseStep ==
    /\ At("close")
    /\ figs' = IF figs > 0 THEN figs - 1 ELSE 0
    /\ Advance
    /\ UNCHANGED <<script, table, df, env, wb, files, elements, out, swallowed>>

\* doc = SimpleDocTemplate(filename): nothing is written yet
DocStep ==
    /\ At("doc")
    /\ env' = ("doc" :> Str(Cur.filename)) @@ env
    /\ Advance
    /\ UNCHANGED <<script, table, df, wb, figs, files, elements, out, swallowed>>

\* elements.append(Image(filename)): the file is opened when the document is built
ImageStep ==
    /\ At("image")
    /\ elements' = Append(elements, Cur.filename)
    /\ Advance
    /\ UNCHANGED <<script, table, df, env, wb, figs, files, out, swallowed>>

FileNames == {files[i].name : i \in 1..Len(files)}

\* doc.build(elements)
BuildStep ==
    /\ At("build")
    /\ IF Range(elements) \subseteq FileNames
       THEN /\ files' = Append(files, File(env["doc"].s, <<>>, elements))
            /\ Advance
       ELSE /\ files' = files
            /\ Fail("OSError")
    /\ UNCHANGED <<script, table, df, env, wb, figs, elements, out, swallowed>>

PrintStep ==
    /\ At("print")
    /\ out' = Append(out, Cur.msg)
    /\ Advance
    /\ UNCHANGED <<script, table, df, env, wb, figs, files, elements, swallowed>>

Next ==
    \/ LoadCsv
    \/ GetItemStep
    \/ AssignStep
    \/ WorkbookStep
    \/ TitleStep
    \/ CreateSheetStep
    \/ AddTitleStep
    \/ TableStep
    \/ ChartStep
    \/ CommentaryStep
    \/ AutoFitStep
    \/ SaveStep
    \/ SubplotsStep
    \/ DrawStep
    \/ SaveFigStep
    \/ CloseStep
    \/ DocStep
    \/ ImageStep
    \/ BuildStep
    \/ PrintStep

Spec == Init /\ [][Next]_vars

\* the interpreter runs the script: a statement that can be executed is
\* executed
FairSpec == Spec /\ WF_vars(Next)


(***************************************************************************)
(* Properties.                                                             *)
(***************************************************************************)
Names == [i \in 1..Len(files) |-> files[i].name]

Count(seq, x) == Cardinality({i \in 1..Len(seq) : seq[i] = x})

IsSales == script \in {"sales", "harness"}

\* C1 (as stated): a script that ran to completion has written exactly one file.
C1_Original == status = "done" => Len(files) = 1

\* C1 (amended): a script that ran to completion has written exactly one file
\* if it is one of the Excel scripts, six files if it is the charts script and
\* four (three chart images, then the PDF) if it is the PDF script.
C1_OutputFiles ==
    status = "done" =>
        Len(files) = (CASE script = "charts" -> 6 [] script = "pdf" -> 4 [] OTHER -> 1)

C1_Witness == status = "done" /\ script = "charts" /\ Len(files) = 6

\* the ratios of the scripts and whether the denominator of each is zero
Ratios == {"growth_7_to_30", "margin_pct", "velocity_change",
           "avg_aov", "gross_margin", "kpi_aov", "kpi_margin"}

ZeroDenominator(v) ==
    CASE v = "growth_7_to_30" -> df.tot["7D Units"] = 0
      [] v \in {"margin_pct", "velocity_change"} -> df.tot["90D Sales"] = 0
      [] v \in {"avg_aov", "kpi_aov"} -> df.tot["Orders"] = 0
      [] v \in {"gross_margin", "kpi_margin"} -> df.tot["Net sales"] = 0

\* C2 (as stated): no ratio with a zero denominator is ever evaluated to a value
\* the script goes on with; the script has ended in an error instead.
C2_Original == \A v \in Ratios \cap DOMAIN env : ~ZeroDenominator(v)

\* C2 (amended): the sales report detects a zero denominator: each of its ratios
\* is 0 then and the script goes on.  The PDF and export scripts do not detect
\* it: the division yields nan or inf and the script goes on when the totals are
\* numpy numbers, and raises ZeroDivisionError when they are Python numbers.
C2_ZeroDenominator ==
    /\ \A v \in Ratios \cap DOMAIN env :
          ZeroDenominator(v) =>
              IF IsSales THEN IsZero(env[v])
              ELSE df.numeric /\ env[v] \in {NaN, Inf}
    /\ err = "ZeroDivisionError" =>
          /\ script \in {"pdf", "export"}
          /\ ~df.numeric
          /\ df.tot["Orders"] = 0

C2_Witness ==
    /\ script = "sales"
    /\ "growth_7_to_30" \in DOMAIN env
    /\ df.tot["7D Units"] = 0
    /\ status = "done"

\* the variables the sales report fills from a column, or from a default
GuardedCol(v) ==
    CASE v = "product_name" -> "Product Name"
      [] v = "category" -> "Category"
      [] v = "color" -> "Color"

GuardedVars == {"product_name", "category", "color"}

\* C3 (as stated): a script run on a table lacking a column it reads does not
\* complete, and no variable holds a default in place of a missing column.
C3_Original ==
    Expected(script) \ table.cols # {} =>
        /\ status # "done"
        /\ \A v \in GuardedVars \cap DOMAIN env : GuardedCol(v) \in table.cols

\* C3 (amended): a script never gets past a df[...] or groupby/agg that names a
\* column the table lacks: it ends there with KeyError.  The exception is the
\* sales report's Product Name, Category and Color: when one is missing, the
\* script takes the default 'Product', 'Category' or 'Color' and goes on.
C3_MissingColumn ==
    /\ \A i \in 1..Len(Program(script)) :
          LET step == Program(script)[i]
          IN  (step.op = "getitem" /\ ~(Range(step.cols) \subseteq table.cols)) =>
                  /\ pc <= i
                  /\ (pc = i /\ status # "running") => (status = "failed" /\ err = "KeyError")
    /\ \A v \in GuardedVars \cap DOMAIN env :
          GuardedCol(v) \notin table.cols =>
              /\ IsSales
              /\ env[v] = Str(CASE v = "product_name" -> "Product"
                                [] v = "category" -> "Category"
                                [] v = "color" -> "Color")

C3_Witness ==
    /\ status = "failed"
    /\ err = "KeyError"
    /\ Expected(script) \ table.cols # {}

ReportFile(s) ==
    CASE s \in {"sales", "harness"} -> "sales_analysis_report.xlsx"
      [] s = "styled" -> "styled_analysis_report.xlsx"
      [] s = "export" -> "november_2025_report.xlsx"
      [] s = "charts" -> "chart_heatmap.png"
      [] s = "pdf" -> "november_kpi_report.pdf"

\* C4 (as stated): on a table without rows no script completes or writes its
\* report file.
C4_Original ==
    table.nrows = 0 => (status # "done" /\ ReportFile(script) \notin FileNames)

\* C4 (amended): on a table without rows the charts, export and styled scripts,
\* and the sales report when the table has one of Product Name, Category and
\* Color, end in an uncaught error before any file is written.  (The sales
\* report on a table without rows and without those three columns completes
\* and writes its report.)
C4_ZeroRows ==
    ( /\ table.nrows = 0
      /\ script # "pdf"
      /\ ~(IsSales /\ SalesGuardedCols \cap table.cols = {}) )
    => (status # "done" /\ files = <<>>)

C4_Witness ==
    /\ table.nrows = 0
    /\ script = "sales"
    /\ SalesExpected \subseteq table.cols
    /\ status = "failed"
    /\ err = "IndexError"

\* C5 (as stated): no error is ever caught and dropped.
C5_Original == ~swallowed

\* C5 (amended): a step is only ever taken by a script that has not raised; a
\* step that raises leaves the script terminated at that step; the one place
\* where an error is caught and dropped is the measuring of a cell inside
\* auto_fit_columns, after which the script goes on.
C5_ErrorsTerminate ==
    [][ /\ status = "running"
        /\ err = "none"
        /\ err' # "none" => (status' = "failed" /\ pc' = pc)
        /\ swallowed' # swallowed => (Cur.op = "autofit" /\ status' # "failed") ]_vars

C5_Witness == swallowed /\ status = "done" /\ script = "sales"

\* C6: run by the test harness on a table with the expected columns and at least
\* one row, the table is loaded into df before any step of the sales report, no
\* step of the report raises, the run does not stop before its end, and at its
\* end sales_analysis_report.xlsx has been saved.
C6_HarnessCompletes ==
    (script = "harness" /\ SalesExpected \subseteq table.cols /\ table.nrows >= 1) =>
        /\ status # "failed"
        /\ pc = 1 => (df = NoDf /\ DOMAIN env = {} /\ wb = <<>> /\ files = <<>>)
        /\ pc > 1 => df = table
        /\ status = "running" => ENABLED Next
        /\ status = "done" => Names = << "sales_analysis_report.xlsx" >>

C6_Witness ==
    /\ script = "harness"
    /\ status = "done"
    /\ table.nrows >= 1
    /\ Names = << "sales_analysis_report.xlsx" >>

\* C7: every sheet of a saved sales_analysis_report.xlsx, of which there are
\* five, holds exactly one bar chart and exactly one line chart.
C7_SalesCharts ==
    \A i \in 1..Len(files) :
        files[i].name = "sales_analysis_report.xlsx" =>
            /\ Len(files[i].sheets) = 5
            /\ \A j \in 1..Len(files[i].sheets) :
                  /\ Count(files[i].sheets[j].charts, "bar") = 1
                  /\ Count(files[i].sheets[j].charts, "line") = 1
                  /\ Len(files[i].sheets[j].charts) = 2

C7_Witness ==
    /\ script = "sales"
    /\ status = "done"
    /\ table.nrows >= 1
    /\ Len(files) = 1 /\ Len(files[1].sheets) = 5

\* C8 (as stated): when the styled analysis script has ended, on any table, its
\* workbook has four sheets and each holds a line chart and a bar chart.
C8_StyledCharts ==
    (script = "styled" /\ status # "running") =>
        /\ Len(wb) = 4
        /\ \A j \in 1..Len(wb) : {"bar", "line"} \subseteq Range(wb[j].charts)

Announced(s) ==
    CASE s \in {"sales", "harness"} ->
            << "Summary", "7-Day Performance", "30-Day Performance",
               "90-Day Performance", "Period Comparison" >>
      [] s = "styled" ->
            << "Summary", "Detailed Data", "Statistical Analysis", "Performance Breakdown" >>
      [] s = "export" ->
            << "Executive Summary", "Daily Data", "Customer Analysis", "Charts" >>

Titles(sheets) == [j \in 1..Len(sheets) |-> sheets[j].title]

\* a table with the columns the script expects, at least one row and, for the
\* styled analysis, at least one numeric column
WellFormed ==
    /\ Expected(script) \subseteq table.cols
    /\ table.nrows >= 1
    /\ script = "styled" => table.numCols >= 1

\* C9 (as stated): each Excel script, run on a well-formed table, ends with a
\* saved workbook whose sheets are the announced ones in the announced order.
C9_AnnouncedSheets ==
    (script \in {"sales", "harness", "styled", "export"} /\ WellFormed
       /\ status # "running") =>
        /\ Len(files) = 1
        /\ Titles(files[1].sheets) = Announced(script)

\* C10 (as stated): at most one figure is open at any point and none is open
\* once the script has ended.
C10_Original == figs <= 1 /\ (status # "running" => figs = 0)

\* C10 (amended): at most one figure is open at any point, none is open when
\* a figure is created, and none is open once the script has run to
\* completion; a script that ends in an error raised while it draws a figure
\* leaves that one figure open.
C10_FiguresClosed ==
    /\ figs <= 1
    /\ At("subplots") => figs = 0
    /\ status = "done" => figs = 0
    /\ (status = "failed" /\ figs = 1) => Cur.op = "draw"
    /\ (status = "failed" /\ Cur.op = "draw") => figs = 1

C10_Witness ==
    /\ script = "pdf"
    /\ status = "done"
    /\ figs = 0
    /\ Len(files) = 4

\* C11: in the PDF script every chart image handed to the document has been
\* saved before doc.build runs; the PDF is written once, after every other file
\* of the run, and holds the three chart images that were saved before it.
C11_ImagesBeforeBuild ==
    script = "pdf" =>
        /\ At("build") => Range(elements) \subseteq FileNames
        /\ Count(Names, "november_kpi_report.pdf") <= 1
        /\ \A i \in 1..Len(files) :
              files[i].name = "november_kpi_report.pdf" =>
                  /\ i = Len(files)
                  /\ Len(files[i].images) = 3
                  /\ \A k \in 1..Len(files[i].images) :
                        \E j \in 1..(i - 1) : files[j].name = files[i].images[k]

C11_Witness ==
    /\ script = "pdf"
    /\ status = "done"
    /\ files[Len(files)].name = "november_kpi_report.pdf"
    /\ files[Len(files)].images =
          << "chart_daily_sales.png", "chart_daily_orders.png", "chart_aov_trend.png" >>

ChartFiles ==
    << "chart_line_sales.png", "chart_bar_orders.png", "chart_dual_axis.png",
       "chart_pie_customers.png", "chart_comparison.png", "chart_heatmap.png" >>

FinalMessage == "All 6 charts created successfully!"

\* the number of steps of kind op among the first n steps of the script
StepsBefore(op, n) ==
    Cardinality({i \in 1..n : i <= Len(Program(script)) /\ Program(script)[i].op = op})

\* C12: in the charts script the files written so far are the first files of
\* the list line, bar, dual-axis, pie, comparison, heatmap, one per savefig
\* passed; the final message is printed only when all six are written; a run
\* that fails while chart k is drawn has written exactly the files of charts
\* 1..k-1, and a run that fails has not printed the message.
C12_ChartsInOrder ==
    script = "charts" =>
        /\ Cardinality(Range(ChartFiles)) = 6
        /\ Names = SubSeq(ChartFiles, 1, StepsBefore("savefig", pc - 1))
        /\ FinalMessage \in Range(out) => Names = ChartFiles
        /\ status = "failed" => FinalMessage \notin Range(out)
        /\ (status = "failed" /\ Cur.op = "draw") =>
              Names = SubSeq(ChartFiles, 1, StepsBefore("subplots", pc) - 1)

C12_Witness ==
    /\ script = "charts"
    /\ status = "done"
    /\ FinalMessage \in Range(out)
    /\ Names = ChartFiles

\* C13 (as stated): in a saved sales report every cell of every data table
\* has a fill of the maroon family and a beige font.
C13_TableCellsStyled ==
    \A i \in 1..Len(files) :
        files[i].name = "sales_analysis_report.xlsx" =>
            \A j \in 1..Len(files[i].sheets) :
                \A c \in files[i].sheets[j].cells :
                    /\ c.fill \in {MAROON, LIGHT_MAROON, DARK_MAROON}
                    /\ c.font = BEIGE

\* C14 (as stated): the sales report and the styled analysis, run on a
\* well-formed table, end with a saved report in which every sheet holds exactly
\* one commentary block, in a row strictly below the last row of the sheet's
\* data table.
C14_OneCommentaryBelowTable ==
    (script \in {"sales", "harness", "styled"} /\ WellFormed /\ status # "running") =>
        /\ Len(files) = 1
        /\ \A j \in 1..Len(files[1].sheets) :
              LET sheet == files[1].sheets[j]
              IN  /\ Len(sheet.comments) = 1
                  /\ sheet.comments[1] > sheet.last

\* C15 (as stated): the styled analysis, run on a well-formed table of N rows,
\* ends with a Detailed Data sheet that shows min(N, 100) data rows and whose
\* commentary quotes that count and the total N.
C15_DetailedDataRows ==
    (script = "styled" /\ WellFormed /\ status # "running") =>
        \E j \in 1..Len(wb) :
            /\ wb[j].title = "Detailed Data"
            /\ wb[j].last - wb[j].hdr = Min(table.nrows, RowLimit)
            /\ wb[j].reports = << Min(table.nrows, RowLimit), table.nrows >>

\* gross sales divided by the order count over the rows in S
RatioOver(S) ==
    LET gross == SumOver(table.rows, "gross", S)
        orders == SumOver(table.rows, "orders", S)
    IN  IF orders = 0 THEN (IF gross = 0 THEN NaN ELSE Inf) ELSE Q(gross, orders)

RowsOn(key, ks) == {i \in DOMAIN table.rows : table.rows[i][key] \in ks}

SameValue(a, b) ==
    IF IsNum(a) /\ IsNum(b) THEN a.n * b.d = b.n * a.d ELSE a = b

RECURSIVE SumRatios(_)
SumRatios(ds) ==
    IF ds = {} THEN Num(0)
    ELSE LET d == CHOOSE x \in ds : TRUE
         IN  QAdd(RatioOver(RowsOn("day", {d})), SumRatios(ds \ {d}))

\* the unweighted mean of the AOV of the days from..to that have one
MeanOfDays(from, to) ==
    LET ds == {d \in from..to : RatioOver(RowsOn("day", {d})) # NaN}
    IN  IF ds = {} THEN NaN
        ELSE IF \E d \in ds : RatioOver(RowsOn("day", {d})) = Inf THEN Inf
        ELSE QDiv(SumRatios(ds), Num(Cardinality(ds)))

\* the AOV values of a day, of a segment and of the whole table are gross sales
\* divided by the order count over the same rows
AovOfGroups ==
    /\ "daily_AOV" \in DOMAIN env =>
          /\ Len(env["daily_AOV"].v) = table.days
          /\ \A d \in 1..table.days :
                SameValue(env["daily_AOV"].v[d], RatioOver(RowsOn("day", {d})))
    /\ "customer_AOV" \in DOMAIN env =>
          /\ Len(env["customer_AOV"].v) = table.segs
          /\ \A g \in 1..table.segs :
                SameValue(env["customer_AOV"].v[g], RatioOver(RowsOn("seg", {g})))
    /\ \A v \in {"avg_aov", "kpi_aov"} \cap DOMAIN env :
          SameValue(env[v], RatioOver(DOMAIN table.rows))

\* the averages a chart shows and the days each is taken over
ChartAverages ==
    [aov_mean |-> 1..table.days,
     pre_bf_vals |-> 1..(table.bf - 1),
     bf_vals |-> table.bf..table.days]

\* C16 (as stated): every reported AOV, the averages shown on charts included,
\* is gross sales divided by the order count over the same rows.
C16_Original ==
    /\ AovOfGroups
    /\ \A v \in DOMAIN ChartAverages \cap DOMAIN env :
          SameValue(env[v], RatioOver(RowsOn("day", ChartAverages[v])))

\* C16 (amended): the AOV of a day, of a customer segment and of the whole
\* table (the KPI) is gross sales divided by the order count over the same rows;
\* an average AOV shown on a chart is the unweighted mean of the daily AOV
\* values of its period.
C16_AovValues ==
    /\ AovOfGroups
    /\ \A v \in DOMAIN ChartAverages \cap DOMAIN env :
          LET ds == ChartAverages[v]
          IN  SameValue(env[v],
                        IF ds = {} THEN NaN
                        ELSE MeanOfDays(CHOOSE a \in ds : \A b \in ds : a <= b,
                                        CHOOSE a \in ds : \A b \in ds : a >= b))

C16_Witness ==
    /\ script = "pdf"
    /\ status = "done"
    /\ IsNum(env["aov_mean"])
    /\ ~SameValue(env["aov_mean"], env["avg_aov"])

\* the steps of a script of the given kinds
StepsOf(s, ops) ==
    LET prog == Program(s)
    IN  {i \in 1..Len(prog) : prog[i].op \in ops}

\* the file names a script writes and the file names it reads
Writes(s) ==
    LET prog == Program(s)
    IN  {prog[i].filename : i \in {j \in 1..Len(prog) : prog[j].op \in {"save", "savefig", "doc"}}}

Reads(s) ==
    LET prog == Program(s)
    IN  {prog[i].filename : i \in {j \in 1..Len(prog) : prog[j].op = "image"}}

\* the variables a script assigns
Assigns(s) ==
    LET prog == Program(s)
    IN  {prog[i].var : i \in {j \in 1..Len(prog) : prog[j].op = "assign"}} \cup {"doc"}

\* C17: no script reads a file that another script writes: a file a script
\* reads is one it has written itself, earlier in the same run; the variables
\* of a run are the ones its own statements assigned; df is the pre-loaded
\* table, and the one flow between scripts is the harness, which loads df and
\* then executes the text of the sales report on it.
C17_Independent ==
    /\ pc = 1 =>
          /\ \A s2 \in Scripts \ {script} : Reads(script) \cap Writes(s2) = {}
          /\ Reads(script) \subseteq Writes(script)
    /\ FileNames \subseteq Writes(script)
    /\ Range(elements) \subseteq Reads(script)
    /\ At("build") => Range(elements) \subseteq FileNames
    /\ DOMAIN env \subseteq Assigns(script)
    /\ script # "harness" => (df = table /\ StepsOf(script, {"load"}) = {})
    /\ script = "harness" =>
          /\ StepsOf(script, {"load"}) = {1}
          /\ pc = 1 => Tail(Program("harness")) = Program("sales")
          /\ df = IF pc = 1 THEN NoDf ELSE table

C17_Witness ==
    /\ script = "pdf"
    /\ At("build")
    /\ Len(elements) = 3
    /\ Range(elements) \subseteq FileNames

\* C18: the statements of a script are executed in the order of its text, one
\* after the other: a step stays at a statement (a loop whose passes are
\* bounded by the rows of its table) or goes to the next one, and a statement
\* that raises ends the run; every run terminates.
C18_Terminates ==
    /\ [][ /\ pc' \in {pc, pc + 1}
           /\ pc' = pc => (status' = "failed" \/ (Cur.op = "table" /\ ws'.last > ws.last
                                                   /\ ws'.last <= Cur.hdr + TableRows(Cur.rows)))
           /\ pc' = pc + 1 => status' = (IF pc = Len(Program(script)) THEN "done" ELSE "running")
        ]_vars
    /\ <>(status # "running")

C18_Witness ==
    /\ script = "sales"
    /\ status = "done"
    /\ table.nrows >= 2
    /\ \E j \in 1..Len(wb) : wb[j].last - wb[j].hdr = table.nrows

OutputFiles(s) ==
    CASE s \in {"sales", "harness"} -> {"sales_analysis_report.xlsx"}
      [] s = "styled" -> {"styled_analysis_report.xlsx"}
      [] s = "export" -> {"november_2025_report.xlsx"}
      [] s = "charts" -> Range(ChartFiles)
      [] s = "pdf" -> {"chart_daily_sales.png", "chart_daily_orders.png",
                       "chart_aov_trend.png", "november_kpi_report.pdf"}

\* C19: the set of file names a completed run has written is a function of the
\* script alone, whatever the table; no run writes a file of another name.
C19_FixedFileNames ==
    /\ FileNames \subseteq OutputFiles(script)
    /\ status = "done" => FileNames = OutputFiles(script)

C19_Witness ==
    /\ script = "export"
    /\ status = "done"
    /\ table.nrows = 2
    /\ FileNames = {"november_2025_report.xlsx"}

====
